---- MODULE Spec2Model ----
(***************************************************************************)
(* Climate Control System: the power-control leaf node (watchdog relay     *)
(* controller) and the sensor hub (hysteresis decisions and dispatch).     *)
(*                                                                         *)
(* Time is millis(): milliseconds since boot, an unsigned long (32 bits).  *)
(* One action of the leaf is one whole iteration of its loop().            *)
(***************************************************************************)
EXTENDS Integers, Sequences, FiniteSets, TLC

VARIABLES
    now,            \* leaf: the value millis() returns
    intBits,        \* leaf: width of `int` in the build (AVR: 16, ARM/ESP: 32)
    nodeId,         \* leaf: the value NodeID is defined as in the build
    PowerIsOn,      \* leaf global
    TimeStart,      \* leaf global (unsigned long)
    OnPeriod,       \* leaf global (int)
    pin,            \* leaf: level of PowerPin
    buflen,         \* leaf: loop()'s local buflen at the end of the iteration
    last,           \* history: the branch the last loop() iteration took
    rxAct,          \* history: buf[1] as the last iteration read it (-1: no message)
    reqSecs,        \* history: duration byte of the last applied window
    grantKind,      \* history: how the current window was granted
    quiet,          \* history: no message received since the window was granted
    extended,       \* history: the last iteration moved the end of a running window later
    temp,           \* hub: loop()'s local temp
    humidity,       \* hub: loop()'s local humidity
    HeatingOn,      \* hub locals
    HeatingOff,
    HumidifierOn,
    HumidifierOff,
    sent,           \* hub: the packets transmitted in the last cycle, in order
    packet,         \* codec: the arguments <<ID, powerOn, len>> of a powerNode call
    wire,           \* codec: the bytes that call transmits (<<>>: not yet sent)
    decoded,        \* codec: what the leaf reads from them (<<>>: not yet received)
    hubAt,          \* system: the time at which the hub's next loop() iteration starts
    air,            \* system: the packets on their way, each <<arrival time, bytes>>
    need            \* history: every hub cycle so far asked to activate this node

leafVars == <<now, intBits, nodeId, PowerIsOn, TimeStart, OnPeriod, pin, buflen,
              last, rxAct, reqSecs, grantKind, quiet, extended>>
hubVars  == <<temp, humidity, HeatingOn, HeatingOff, HumidifierOn, HumidifierOff, sent>>
codecVars == <<packet, wire, decoded>>
sysVars  == <<hubAt, air, need>>
vars     == <<leafVars, hubVars, codecVars, sysVars>>

(***************************************************************************)
(* Bounds of the exploration.                                              *)
(***************************************************************************)
\* Messages arrive only during the first MaxPacketSeconds seconds; after that
\* the channel is silent (the coordinator has stopped transmitting).
MaxPacketSeconds == 2
\* The clock is explored up to MaxSeconds seconds.
MaxSeconds == 35
\* The clock of the hub and a leaf together is explored up to MaxSysSeconds.
MaxSysSeconds == 45

\* Delay, in ms, after which a message ends waitAvailableTimeout early.
ArrivalDelays == {250, 500}
\* Sample values of the three bytes loop() reads from buf.
IdSamples       == {2, 3}
ActivateSamples == {0, 1, 2}
DurationSamples == {0, 1, 33, 66, 255}
\* Build targets of the sketch: width of int in bits.
IntWidths == {16, 32}
\* Sample sensor readings of the hub.
TempSamples     == 17..25
HumiditySamples == 33..47
\* Sample sensor readings of the hub when it runs together with a leaf.
SysTempSamples     == {19, 21, 23}
SysHumiditySamples == {34, 40, 46}
\* Time, in ms, that send() and waitPacketSent() take for one packet.
TxSamples == {0, 100}

(***************************************************************************)
(* Leaf node: constants.                                                   *)
(***************************************************************************)
\* The sketch as written is the fan's node; the humidifier's and the heater's
\* nodes are the same sketch with NodeID defined as 1 and 2.
DefaultNodeID == 3
NodeID        == nodeId
PollTimeout   == 500
MaxMessageLen == 60

(***************************************************************************)
(* Leaf node: integer conversions.                                         *)
(* An unsigned long is kept as <<high, low>>, its two 16-bit halves.       *)
(***************************************************************************)
Half == 2^16

\* Largest and smallest value of an int of the build.
IntMax == (2^(intBits - 2) - 1) * 2 + 1
IntMin == -IntMax - 1

\* Value of an int expression whose mathematical value is x: exact when it
\* fits, two's-complement wrap-around of the int width when it overflows.
ToInt(x) ==
    IF x >= IntMin /\ x <= IntMax
      THEN x
      ELSE ((x - IntMin) % 2^intBits) + IntMin

\* Conversion of an integer (a long or an int, negative or not) to unsigned long.
ToULong(x) == <<(x \div Half) % Half, x % Half>>

\* a - b in unsigned long arithmetic (modulo 2^32).
USub(a, b) ==
    LET borrow == IF a[2] < b[2] THEN 1 ELSE 0
    IN  <<(a[1] - b[1] - borrow) % Half, (a[2] - b[2]) % Half>>

\* a > b on unsigned longs.
UGreater(a, b) == a[1] > b[1] \/ (a[1] = b[1] /\ a[2] > b[2])

\* onTime * 1000 stored in `int OnPeriod`.
SecondsToPeriod(secs) == ToInt(secs * 1000)

\* The test of buf[1] with only the byte 1 counted as true.
ByteToBoolean_OnlyOne(b) == b = 1

\* The test of buf[1]: (boolean) buf[1] compared with true.
ByteToBoolean(b) == b # 0

\* millis() - TimeStart > OnPeriod, at time t.
Expired(t) == UGreater(USub(ToULong(t), ToULong(TimeStart)), ToULong(OnPeriod))

(***************************************************************************)
(* Leaf node: checkTime, powerOn, powerOff.  t is the value of millis().   *)
(***************************************************************************)
core == <<PowerIsOn, TimeStart, OnPeriod, pin>>

\* checkTime without the digitalWrite.
checkTime_NoPinWrite(t) ==
    /\ IF Expired(t)
         THEN PowerIsOn' = FALSE /\ UNCHANGED pin
         ELSE UNCHANGED <<pin, PowerIsOn>>
    /\ UNCHANGED <<TimeStart, OnPeriod>>

checkTime(t) ==
    /\ IF Expired(t)
         THEN pin' = "LOW" /\ PowerIsOn' = FALSE
         ELSE UNCHANGED <<pin, PowerIsOn>>
    /\ UNCHANGED <<TimeStart, OnPeriod>>

\* powerOn that starts the window only when the actuator was Off.
powerOn_NoRebase(t, onTime) ==
    /\ TimeStart' = (IF PowerIsOn THEN TimeStart ELSE t)
    /\ PowerIsOn' = TRUE
    /\ OnPeriod' = SecondsToPeriod(onTime)
    /\ pin' = "HIGH"

powerOn(t, onTime) ==
    /\ TimeStart' = t
    /\ PowerIsOn' = TRUE
    /\ OnPeriod' = SecondsToPeriod(onTime)
    /\ pin' = "HIGH"

\* powerOff without its immediate branch: duration 0 is treated as a deferral.
powerOff_NoImmediate(t, offTime) ==
    IF PowerIsOn
      THEN /\ TimeStart' = t
           /\ OnPeriod' = SecondsToPeriod(offTime)
           /\ UNCHANGED <<PowerIsOn, pin>>
      ELSE UNCHANGED core

\* powerOff whose deferral leaves TimeStart alone.
powerOff_KeepStart(t, offTime) ==
    IF offTime = 0 /\ PowerIsOn
      THEN /\ pin' = "LOW"
           /\ PowerIsOn' = FALSE
           /\ UNCHANGED <<TimeStart, OnPeriod>>
      ELSE IF PowerIsOn
        THEN /\ OnPeriod' = SecondsToPeriod(offTime)
             /\ UNCHANGED <<TimeStart, PowerIsOn, pin>>
        ELSE UNCHANGED core

\* powerOff whose deferral does not test PowerIsOn.
powerOff_ArmsWhenOff(t, offTime) ==
    IF offTime = 0 /\ PowerIsOn
      THEN /\ pin' = "LOW"
           /\ PowerIsOn' = FALSE
           /\ UNCHANGED <<TimeStart, OnPeriod>>
      ELSE /\ TimeStart' = t
           /\ OnPeriod' = SecondsToPeriod(offTime)
           /\ UNCHANGED <<PowerIsOn, pin>>

powerOff(t, offTime) ==
    IF offTime = 0 /\ PowerIsOn
      THEN /\ pin' = "LOW"
           /\ PowerIsOn' = FALSE
           /\ UNCHANGED <<TimeStart, OnPeriod>>
      ELSE IF PowerIsOn
        THEN /\ TimeStart' = t
             /\ OnPeriod' = SecondsToPeriod(offTime)
             /\ UNCHANGED <<PowerIsOn, pin>>
        ELSE UNCHANGED core

(***************************************************************************)
(* Leaf node: loop().                                                      *)
(***************************************************************************)
\* The dispatch without the NodeID test.
Dispatch_NoAddressCheck(t, buf) ==
    IF ByteToBoolean(buf[2])
      THEN powerOn(t, buf[3])
      ELSE powerOff(t, buf[3])

\* The body of `if (Receiver.recv(buf, &buflen))`: buf is <<buf[0], buf[1], buf[2]>>.
Dispatch(t, buf) ==
    IF NodeID = buf[1]
      THEN IF ByteToBoolean(buf[2])
             THEN powerOn(t, buf[3])
             ELSE powerOff(t, buf[3])
      ELSE UNCHANGED core

\* The branch Dispatch takes on buf in the current state.
Branch(buf) ==
    IF NodeID # buf[1] THEN "unaddressed"
    ELSE IF ByteToBoolean(buf[2]) THEN "on"
    ELSE IF ~PowerIsOn THEN "offIgnored"
    ELSE IF buf[3] = 0 THEN "offNow"
    ELSE "offDeferred"

\* waitAvailableTimeout(500) runs out, recv() returns false.
\* The iteration ends at time t.
TimeoutIteration(t) ==
    /\ now' = t
    /\ buflen' = MaxMessageLen
    /\ IF PowerIsOn THEN checkTime(now') ELSE UNCHANGED core
    /\ last' = "timeout"
    /\ rxAct' = -1
    /\ extended' = FALSE
    /\ UNCHANGED <<intBits, nodeId, reqSecs, grantKind, quiet>>

LoopTimeout ==
    /\ now + PollTimeout <= MaxSeconds * 1000
    /\ TimeoutIteration(now + PollTimeout)
    /\ UNCHANGED <<hubVars, codecVars, sysVars>>

\* A message of len bytes arrives after dt ms and recv() returns true.  recv()
\* writes the first len bytes of buf; loop() never looks at buflen, so for
\* len < 3 the bytes it reads past the message are whatever the uninitialised
\* local array holds: buf ranges over all sample values in those positions too.
\* The message is there at time t.
RecvIteration(t, len, buf) ==
    /\ now' = t
    /\ buflen' = len
    /\ Dispatch(now', buf)
    /\ last' = Branch(buf)
    /\ reqSecs' = IF Branch(buf) \in {"on", "offDeferred"} THEN buf[3] ELSE reqSecs
    /\ grantKind' =
         CASE Branch(buf) = "on" ->
                IF PowerIsOn /\ now' < TimeStart + reqSecs * 1000 THEN "renew" ELSE "on"
           [] Branch(buf) = "offDeferred" -> "defer"
           [] OTHER -> grantKind
    /\ quiet' = (Branch(buf) \in {"on", "offDeferred"})
    /\ rxAct' = buf[2]
    /\ extended' = /\ Branch(buf) \in {"on", "offDeferred"}
                   /\ PowerIsOn
                   /\ t < TimeStart + reqSecs * 1000
                   /\ t + buf[3] * 1000 > TimeStart + reqSecs * 1000
    /\ UNCHANGED <<intBits, nodeId>>

LoopRecv(dt, len, buf) ==
    /\ now + dt <= MaxPacketSeconds * 1000
    /\ RecvIteration(now + dt, len, buf)
    /\ UNCHANGED <<hubVars, codecVars, sysVars>>

Buffers == IdSamples \X ActivateSamples \X DurationSamples

LeafNext ==
    \/ LoopTimeout
    \/ \E dt \in ArrivalDelays, len \in 0..3, buf \in Buffers : LoopRecv(dt, len, buf)

(***************************************************************************)
(* Hub: configuration.                                                     *)
(***************************************************************************)
TargetTemp        == 21
TargetHumidity    == 40
ToleranceTemp     == 1
ToleranceHumidity == 5
TimeBetween       == 10
TimeOnHeater      == 20
TimeOnHumidifier  == 15
TimeOnFan         == 30
SendDelay         == 100
HubNode  == 0
HumNode  == 1
HeatNode == 2
FanNode  == 3

(***************************************************************************)
(* Hub: powerNode and loop().                                              *)
(***************************************************************************)
\* (uint8_t) powerOn
BooleanToByte(b) == IF b THEN 1 ELSE 0

\* powerNode with the second and third byte exchanged.
powerNode_Swapped(ID, powerOn_, len) == <<ID, len, BooleanToByte(powerOn_)>>

\* The 3 bytes powerNode transmits.
powerNode(ID, powerOn_, len) == <<ID, BooleanToByte(powerOn_), len>>

\* The decision with the edges of the band counted as outside it.
Decide_Inclusive(value, target, tolerance) ==
    IF value >= target + tolerance THEN "off"
    ELSE IF value <= target - tolerance THEN "on"
    ELSE "none"

\* if (value > target + tolerance) Off = true; else if (value < target - tolerance) On = true;
Decide(value, target, tolerance) ==
    IF value > target + tolerance THEN "off"
    ELSE IF value < target - tolerance THEN "on"
    ELSE "none"

\* The transmissions with the deactivate packets carrying the run length.
Transmissions_OffWithRunLength(heatOn, heatOff, humOn, humOff) ==
    (IF humOn THEN <<powerNode(HumNode, TRUE, TimeOnHumidifier)>>
     ELSE IF humOff THEN <<powerNode(HumNode, FALSE, TimeOnHumidifier)>> ELSE <<>>)
    \o
    (IF heatOn THEN <<powerNode(HeatNode, TRUE, TimeOnHeater)>>
     ELSE IF heatOff THEN <<powerNode(HeatNode, FALSE, TimeOnHeater)>> ELSE <<>>)
    \o
    (IF heatOn \/ humOn THEN <<powerNode(FanNode, TRUE, TimeOnFan)>> ELSE <<>>)

\* The transmissions without the deactivate branches.
Transmissions_NoDeactivate(heatOn, heatOff, humOn, humOff) ==
    (IF humOn THEN <<powerNode(HumNode, TRUE, TimeOnHumidifier)>> ELSE <<>>)
    \o
    (IF heatOn THEN <<powerNode(HeatNode, TRUE, TimeOnHeater)>> ELSE <<>>)
    \o
    (IF heatOn \/ humOn THEN <<powerNode(FanNode, TRUE, TimeOnFan)>> ELSE <<>>)

\* The transmissions with the fan tied to the heater alone.
Transmissions_FanOnHeatOnly(heatOn, heatOff, humOn, humOff) ==
    (IF humOn THEN <<powerNode(HumNode, TRUE, TimeOnHumidifier)>>
     ELSE IF humOff THEN <<powerNode(HumNode, FALSE, 0)>> ELSE <<>>)
    \o
    (IF heatOn THEN <<powerNode(HeatNode, TRUE, TimeOnHeater)>>
     ELSE IF heatOff THEN <<powerNode(HeatNode, FALSE, 0)>> ELSE <<>>)
    \o
    (IF heatOn THEN <<powerNode(FanNode, TRUE, TimeOnFan)>> ELSE <<>>)

\* The transmissions of one cycle, in order.
Transmissions(heatOn, heatOff, humOn, humOff) ==
    (IF humOn THEN <<powerNode(HumNode, TRUE, TimeOnHumidifier)>>
     ELSE IF humOff THEN <<powerNode(HumNode, FALSE, 0)>> ELSE <<>>)
    \o
    (IF heatOn THEN <<powerNode(HeatNode, TRUE, TimeOnHeater)>>
     ELSE IF heatOff THEN <<powerNode(HeatNode, FALSE, 0)>> ELSE <<>>)
    \o
    (IF heatOn \/ humOn THEN <<powerNode(FanNode, TRUE, TimeOnFan)>> ELSE <<>>)

\* The readings, decisions and transmissions of one iteration of the hub's loop().
HubBody(t, h) ==
    /\ temp' = t
    /\ humidity' = h
    /\ HeatingOn' = (Decide(t, TargetTemp, ToleranceTemp) = "on")
    /\ HeatingOff' = (Decide(t, TargetTemp, ToleranceTemp) = "off")
    /\ HumidifierOn' = (Decide(h, TargetHumidity, ToleranceHumidity) = "on")
    /\ HumidifierOff' = (Decide(h, TargetHumidity, ToleranceHumidity) = "off")
    /\ sent' = Transmissions(HeatingOn', HeatingOff', HumidifierOn', HumidifierOff')

\* One iteration of the hub's loop() with sensor readings t and h.
HubLoop(t, h) ==
    /\ HubBody(t, h)
    /\ UNCHANGED <<leafVars, codecVars, sysVars>>

HubNext == \E t \in TempSamples, h \in HumiditySamples : HubLoop(t, h)

(***************************************************************************)
(* The packet from powerNode to the leaf's loop().                         *)
(***************************************************************************)
Bytes == 0..255

\* What loop() reads from the three bytes of buf: the id it compares with
\* NodeID, the truth value of buf[1], the argument of powerOn / powerOff.
ReadPacket(buf) == <<buf[1], ByteToBoolean(buf[2]), buf[3]>>

\* powerNode(ID, powerOn, len) fills transmissionPulse and sends it.
Encode ==
    /\ wire = <<>>
    /\ wire' = powerNode(packet[1], packet[2], packet[3])
    /\ UNCHANGED <<packet, decoded>>
    /\ UNCHANGED <<leafVars, hubVars, sysVars>>

\* recv() copies the 3 bytes into buf and loop() reads them.
Decode ==
    /\ wire # <<>>
    /\ decoded = <<>>
    /\ decoded' = ReadPacket(wire)
    /\ UNCHANGED <<packet, wire>>
    /\ UNCHANGED <<leafVars, hubVars, sysVars>>

CodecNext == Encode \/ Decode

(***************************************************************************)
(* The hub and one leaf together, no packet lost.                          *)
(***************************************************************************)
\* The leaf nodes of the system: the sketch built with NodeID 1, 2 and 3.
ActuatorIds == {HumNode, HeatNode, FanNode}

\* Whether a hub cycle with decisions heatOn and humOn activates node id.
Wanted(id, heatOn, humOn) ==
    CASE id = HumNode  -> humOn
      [] id = HeatNode -> heatOn
      [] OTHER         -> heatOn \/ humOn

\* One iteration of the hub's loop(), starting at hubAt: each powerNode call
\* takes tx ms to send its packet and then waits SendDelay ms; after the last
\* one the hub sleeps TimeBetween seconds.
SysHubLoop(t, h, tx) ==
    /\ air = <<>>
    /\ hubAt <= now + PollTimeout
    /\ hubAt <= MaxSysSeconds * 1000
    /\ HubBody(t, h)
    /\ air' = [i \in 1..Len(sent') |->
                 <<hubAt + i * tx + (i - 1) * SendDelay, sent'[i]>>]
    /\ hubAt' = hubAt + Len(sent') * (tx + SendDelay) + TimeBetween * 1000
    /\ need' = (need /\ Wanted(nodeId, HeatingOn', HumidifierOn'))
    /\ UNCHANGED <<leafVars, codecVars>>

\* The leaf's loop() when the next packet arrives within its receive timeout.
SysLoopRecv ==
    /\ air # <<>>
    /\ Head(air)[1] <= now + PollTimeout
    /\ RecvIteration(Head(air)[1], 3, Head(air)[2])
    /\ air' = Tail(air)
    /\ UNCHANGED <<hubAt, need>>
    /\ UNCHANGED <<hubVars, codecVars>>

\* The leaf's loop() when no packet arrives within its receive timeout.
SysLoopTimeout ==
    /\ IF air = <<>> THEN TRUE ELSE Head(air)[1] > now + PollTimeout
    /\ hubAt > now + PollTimeout
    /\ now + PollTimeout <= MaxSysSeconds * 1000
    /\ TimeoutIteration(now + PollTimeout)
    /\ UNCHANGED <<hubVars, codecVars, sysVars>>

SysNext ==
    \/ \E t \in SysTempSamples, h \in SysHumiditySamples, tx \in TxSamples :
           SysHubLoop(t, h, tx)
    \/ SysLoopRecv
    \/ SysLoopTimeout

(***************************************************************************)
(* Specifications.                                                         *)
(***************************************************************************)
\* The globals after start and setup().
LeafBoot ==
    /\ now = 0
    /\ intBits \in IntWidths
    /\ PowerIsOn = FALSE
    /\ TimeStart = 0
    /\ OnPeriod = 0
    /\ pin = "LOW"
    /\ buflen = MaxMessageLen
    /\ last = "boot"
    /\ rxAct = -1
    /\ reqSecs = 0
    /\ grantKind = "none"
    /\ quiet = FALSE
    /\ extended = FALSE

LeafInit == LeafBoot /\ nodeId = DefaultNodeID

SysIdle ==
    /\ hubAt = 0
    /\ air = <<>>
    /\ need = TRUE

HubInit ==
    /\ temp = TargetTemp
    /\ humidity = TargetHumidity
    /\ HeatingOn = FALSE
    /\ HeatingOff = FALSE
    /\ HumidifierOn = FALSE
    /\ HumidifierOff = FALSE
    /\ sent = <<>>

CodecIdle ==
    /\ packet = <<0, FALSE, 0>>
    /\ wire = <<>>
    /\ decoded = <<>>

CodecInit ==
    /\ packet \in Bytes \X BOOLEAN \X Bytes
    /\ wire = <<>>
    /\ decoded = <<>>

Init == LeafInit /\ HubInit /\ CodecIdle /\ SysIdle

SysInit == LeafBoot /\ nodeId \in ActuatorIds /\ HubInit /\ CodecIdle /\ SysIdle

Next == LeafNext

\* The leaf node alone.
Spec == Init /\ [][Next]_vars

\* The hub alone.
HubSpec == Init /\ [][HubNext]_vars

\* One packet from the hub's encoder to the leaf's decoder, for every argument.
CodecStart == LeafInit /\ HubInit /\ CodecInit /\ SysIdle

CodecSpec == CodecStart /\ [][CodecNext]_vars

\* The hub and a leaf node together, every packet delivered.
SysSpec == SysInit /\ [][SysNext]_vars

(***************************************************************************)
(* Properties of the leaf node.                                            *)
(***************************************************************************)
\* The end of the window most recently granted, as the packet asked for it:
\* t0 + P, with P = reqSecs seconds.
Deadline == TimeStart + reqSecs * 1000

\* C1: watchdog fail-safe.  An actuator whose window was granted at TimeStart
\* for reqSecs seconds and that has received no message since is Off (PowerIsOn
\* false, pin LOW) once one receive timeout has passed after the end of the
\* window.
C1_WatchdogShutsOff ==
    (quiet /\ now >= Deadline + PollTimeout) => (~PowerIsOn /\ pin = "LOW")

\* C2: no early shutoff.  An actuator whose window was granted at TimeStart for
\* reqSecs seconds and that has received no message since is On at every time
\* before the end of the window.
C2_NoEarlyShutoff ==
    (quiet /\ now < Deadline) => (PowerIsOn /\ pin = "HIGH")

\* C3: expiry checking is not starved.  In every loop iteration that starts with
\* the actuator On, finds the elapsed time above OnPeriod and grants no new
\* window, the actuator is forced Off, whether the iteration ended by timeout
\* or by a message.
C3_ExpiryEveryIteration ==
    [][ (PowerIsOn /\ Expired(now') /\ last' \notin {"on", "offDeferred"})
          => (~PowerIsOn' /\ pin' = "LOW") ]_vars

\* C4: duration conversion is exact.  Right after a packet that grants a window
\* of reqSecs seconds is applied (activate, or deferred deactivate while On),
\* OnPeriod is reqSecs * 1000 milliseconds.
C4_DurationExact ==
    (last \in {"on", "offDeferred"}) => (OnPeriod = reqSecs * 1000)

\* C5: renewal.  An actuator that was On and inside its window when it applied
\* a new activate packet at TimeStart for reqSecs seconds, and has received no
\* message since, is On at every time before TimeStart + reqSecs seconds.
C5_Renewal ==
    (grantKind = "renew" /\ quiet /\ now < Deadline) => PowerIsOn

\* C6: immediate-off.  Right after an On actuator handled a deactivate packet
\* addressed to it with duration 0, it is Off: PowerIsOn false and pin LOW.
C6_ImmediateOff ==
    (last = "offNow") => (~PowerIsOn /\ pin = "LOW")

C6_Witness ==
    last = "offNow" /\ buflen = 3 /\ ~PowerIsOn /\ pin = "LOW" /\ now < Deadline

\* C7: deferred-off.  An On actuator that applied a deactivate packet with
\* duration reqSecs > 0 at TimeStart and has received no message since stays On
\* before TimeStart + reqSecs seconds and is Off once one receive timeout has
\* passed after it.
C7_DeferredOff ==
    (grantKind = "defer" /\ quiet) =>
        /\ (now < Deadline => PowerIsOn)
        /\ (now >= Deadline + PollTimeout => ~PowerIsOn)

\* C8: malformed packets change nothing.  A loop iteration that received a
\* message shorter than 3 bytes leaves PowerIsOn, TimeStart, OnPeriod and the
\* pin unchanged.
C8_MalformedIgnored ==
    [][ (\E dt \in ArrivalDelays, len \in 0..2, buf \in Buffers : LoopRecv(dt, len, buf))
          => UNCHANGED core ]_vars

\* C9: unaddressed packets change nothing.  A loop iteration that received a
\* 3-byte packet whose first byte is not NodeID leaves PowerIsOn, TimeStart,
\* OnPeriod and the pin unchanged, whatever its activate and duration bytes.
C9_UnaddressedIgnored ==
    [][ (buflen' = 3 /\ \E dt \in ArrivalDelays, buf \in Buffers :
                            buf[1] # NodeID /\ LoopRecv(dt, 3, buf))
          => UNCHANGED core ]_vars

C9_Witness ==
    last = "unaddressed" /\ buflen = 3 /\ PowerIsOn /\ pin = "HIGH" /\ now > TimeStart

\* The last loop iteration received a message whose first byte read as NodeID.
Addressed == last \in {"on", "offNow", "offDeferred", "offIgnored"}

\* C15: activate byte.  Right after a message addressed to the node is handled,
\* a second byte other than 0 has been handled by powerOn (the actuator is On,
\* the pin HIGH, the window starts now) and a second byte 0 by powerOff (the
\* actuator is Off, or On with a deferred window).
C15_ActivateByte ==
    Addressed =>
        IF rxAct # 0
          THEN last = "on" /\ PowerIsOn /\ pin = "HIGH" /\ TimeStart = now
          ELSE /\ last \in {"offNow", "offDeferred", "offIgnored"}
               /\ (last # "offDeferred") => (~PowerIsOn /\ pin = "LOW")
               /\ (last = "offDeferred") => (PowerIsOn /\ TimeStart = now)

C15_Witness ==
    rxAct = 2 /\ buflen = 3 /\ last = "on" /\ PowerIsOn /\ pin = "HIGH" /\ TimeStart = now

\* C17: safe start.  The node starts Off, with PowerIsOn false and the pin LOW,
\* and it goes from Off to On only in a loop iteration that received a whole
\* 3-byte packet addressed to it and handled it as activate.
C17_SafeStart ==
    /\ ~PowerIsOn /\ pin = "LOW"
    /\ [][ (~PowerIsOn /\ PowerIsOn') => (buflen' = 3 /\ last' = "on" /\ rxAct' # 0) ]_vars

C19_PinAgreesWithState ==
    (pin = "HIGH") <=> PowerIsOn

\* checkTime has turned the actuator off.
C19_Witness ==
    last = "timeout" /\ quiet /\ ~PowerIsOn /\ pin = "LOW"

\* C20: deactivate while Off.  A loop iteration that starts with the actuator
\* Off and handles a message addressed to the node whose second byte is 0
\* leaves PowerIsOn false, the pin LOW, and TimeStart and OnPeriod unchanged.
C20_DeactivateWhileOff ==
    [][ (~PowerIsOn /\ Addressed' /\ rxAct' = 0)
          => (UNCHANGED core /\ ~PowerIsOn' /\ pin' = "LOW") ]_vars

C20_Witness ==
    /\ last = "offIgnored" /\ rxAct = 0 /\ buflen = 3
    /\ ~PowerIsOn /\ pin = "LOW" /\ grantKind # "none" /\ TimeStart < now

(***************************************************************************)
(* Properties of the hub.                                                  *)
(***************************************************************************)
\* C10: hysteresis decision.  For temperature and for humidity, the activate
\* flag is set exactly when the value is below target - tolerance, the
\* deactivate flag exactly when it is above target + tolerance, never both,
\* and a value at the target or at either edge of the band sets neither.
C10_Hysteresis ==
    /\ HeatingOn <=> (temp < TargetTemp - ToleranceTemp)
    /\ HeatingOff <=> (temp > TargetTemp + ToleranceTemp)
    /\ ~(HeatingOn /\ HeatingOff)
    /\ HumidifierOn <=> (humidity < TargetHumidity - ToleranceHumidity)
    /\ HumidifierOff <=> (humidity > TargetHumidity + ToleranceHumidity)
    /\ ~(HumidifierOn /\ HumidifierOff)
    /\ (temp \in {TargetTemp - ToleranceTemp, TargetTemp, TargetTemp + ToleranceTemp})
          => (~HeatingOn /\ ~HeatingOff)
    /\ (humidity \in {TargetHumidity - ToleranceHumidity, TargetHumidity,
                      TargetHumidity + ToleranceHumidity})
          => (~HumidifierOn /\ ~HumidifierOff)

C10_Witness ==
    /\ temp = TargetTemp + ToleranceTemp
    /\ humidity = TargetHumidity - ToleranceHumidity
    /\ ~HeatingOn /\ ~HeatingOff /\ ~HumidifierOn /\ ~HumidifierOff

\* The packets of the last cycle whose first byte is id, in order.
PacketsFor(id) == SelectSeq(sent, LAMBDA p : p[1] = id)

\* C11: dispatch.  In each cycle, for the humidifier and for the heater, an
\* activate decision sends exactly one packet <<id, 1, run length>>, a
\* deactivate decision exactly one packet <<id, 0, 0>>, and no decision sends
\* no packet with that id.
C11_Dispatch ==
    /\ PacketsFor(HumNode) =
         (IF HumidifierOn THEN << <<HumNode, 1, TimeOnHumidifier>> >>
          ELSE IF HumidifierOff THEN << <<HumNode, 0, 0>> >>
          ELSE << >>)
    /\ PacketsFor(HeatNode) =
         (IF HeatingOn THEN << <<HeatNode, 1, TimeOnHeater>> >>
          ELSE IF HeatingOff THEN << <<HeatNode, 0, 0>> >>
          ELSE << >>)

C11_Witness ==
    /\ HumidifierOn /\ HeatingOff
    /\ sent = << <<HumNode, 1, TimeOnHumidifier>>, <<HeatNode, 0, 0>>,
                 <<FanNode, 1, TimeOnFan>> >>

\* C12 as stated: with humidity 46 against 40 +/- 5 no humidity flag is set and
\* no packet is sent to the humidifier.
C12_Scenario ==
    (humidity = 46) =>
        (~HumidifierOn /\ ~HumidifierOff /\ PacketsFor(HumNode) = << >>)

\* C12 as amended: with humidity 46 against 40 +/- 5 the reading is above the
\* band, the deactivate flag is set and exactly one packet, <<HumNode, 0, 0>>,
\* is sent to the humidifier.
C12_ScenarioAmended ==
    (humidity = 46) =>
        (~HumidifierOn /\ HumidifierOff /\ PacketsFor(HumNode) = << <<HumNode, 0, 0>> >>)

C12_Witness ==
    humidity = 46 /\ HumidifierOff /\ PacketsFor(HumNode) = << <<HumNode, 0, 0>> >>

\* C13: circulation.  In each cycle exactly one packet <<FanNode, 1, TimeOnFan>>
\* is sent when the heater or the humidifier is activated and no packet with
\* FanNode otherwise (so never a deactivate); it is the last packet of the
\* cycle; temperature 18 with humidity in the band sends exactly the heater's
\* and the fan's activate packets.
C13_Circulation ==
    /\ PacketsFor(FanNode) =
         (IF HeatingOn \/ HumidifierOn THEN << <<FanNode, 1, TimeOnFan>> >> ELSE << >>)
    /\ (PacketsFor(FanNode) # << >>) => (sent[Len(sent)][1] = FanNode)
    /\ (temp = 18 /\ humidity >= TargetHumidity - ToleranceHumidity
                  /\ humidity <= TargetHumidity + ToleranceHumidity)
          => (sent = << <<HeatNode, 1, TimeOnHeater>>, <<FanNode, 1, TimeOnFan>> >>)

C13_Witness ==
    /\ temp = 18 /\ humidity = 41
    /\ sent = << <<HeatNode, 1, TimeOnHeater>>, <<FanNode, 1, TimeOnFan>> >>

(***************************************************************************)
(* Properties of the packet codec.                                         *)
(***************************************************************************)
\* C14: codec round-trip.  For every target id 0..255, activate flag and
\* duration 0..255, powerNode writes the 3 bytes <<id, 0 or 1, duration>> and
\* the leaf reads the same id, flag and duration back from them.
C14_RoundTrip ==
    /\ (wire # <<>>) =>
          wire = <<packet[1], IF packet[2] THEN 1 ELSE 0, packet[3]>>
    /\ (decoded # <<>>) => (decoded = packet)

C14_Witness ==
    packet = <<255, TRUE, 255>> /\ decoded = <<255, TRUE, 255>>

(***************************************************************************)
(* Properties of the hub and a leaf together.                              *)
(***************************************************************************)
\* C16: continuous need keeps an actuator running.  While every hub cycle so
\* far has decided to activate the leaf's actuator and every packet is
\* delivered, no step of the system takes the actuator from On to Off, and
\* every activate packet that reaches the leaf while it is On arrives before
\* the running window has expired.
C16_ContinuousNeed ==
    [][ /\ (PowerIsOn /\ need') => PowerIsOn'
        /\ (PowerIsOn /\ need /\ last' = "on" /\ now' # now) => ~Expired(now')
      ]_vars

\* The humidifier's leaf is still On after more than two of its windows.
C16_Witness ==
    /\ need /\ PowerIsOn /\ nodeId = HumNode
    /\ now > 2 * TimeOnHumidifier * 1000

====
